---- MODULE Spec2Model ----
\* Model of pytorch/models/resnet.py: the two residual blocks, the stage
\* builder ResNet._make_layer, the network assembly ResNet.__init__, the
\* forward passes (as tensor shapes) and the five named constructors.
EXTENDS Integers, Sequences, FiniteSets, TLC

VARIABLES
    pc,          \* position of the caller: which line of resnet.py runs next
    call,        \* the call being made: entry point and its arguments
    in_planes,   \* self.in_planes, the running input-channel count (0: not yet set)
    stage,       \* which of layer1..layer4 is being built or run (1..4)
    idx,         \* position of the for loop of _make_layer in its configs (1-based)
    layers,      \* the local list `layers` of the running _make_layer
    net,         \* self.layer1 .. self.layer4, as far as they are assigned
    stem,        \* self.conv1, self.bn1 of the network
    linear,      \* self.linear: << >> until line 123 ran, then <<layer>>
    x,           \* the tensor (its shape) the forward pass holds in `out`
    err,         \* the exception that ended the call, "none" otherwise
    nReads,      \* number of reads of self.in_planes (line 129)
    nWrites,     \* number of writes of self.in_planes after line 107 (line 130)
    blk,         \* the block built by a direct call of a block class
    mainOut,     \* direct block forward: shape of `out` before `out += ...`
    shortOut     \* direct block forward: shape of self.shortcut(x)

vars == <<pc, call, in_planes, stage, idx, layers, net, stem, linear, x, err,
          nReads, nWrites, blk, mainOut, shortOut>>

\* ---------------------------------------------------------------- bounds
\* strides offered to a directly constructed block
MaxStride == 2
\* how far a stage's configuration list may be longer or shorter than its block count
LenSlack == 1
\* batch sizes N of forward inputs
MaxBatch == 2
\* channel counts offered to a directly constructed block
MaxPlanes == 4
\* spatial sizes H, W offered to a directly constructed block
MaxSide == 3

\* ------------------------------------------------------- Python values
\* A per-block configuration value is either a dict (which may or may not
\* hold the keys "conv" and "stride"; n is the value under "stride") or a
\* plain integer n.  The same shape carries every stride a layer is given.
IntVal(n) == [isInt |-> TRUE, hasConv |-> FALSE, hasStride |-> FALSE, n |-> n]

DictVal(c, s, n) == [isInt |-> FALSE, hasConv |-> c, hasStride |-> s,
                     n |-> IF s THEN n ELSE 0]

\* Python's `v != 1`: only the integer 1 equals 1.
PyNe1(v) == ~(v.isInt /\ v.n = 1)

\* ------------------------------------------------------------- layers
Conv2d(cin, cout, k, s, p) ==
    [op |-> "Conv2d", in_channels |-> cin, out_channels |-> cout,
     kernel_size |-> k, stride |-> s, padding |-> p]

BatchNorm2d(c) ==
    [op |-> "BatchNorm2d", in_channels |-> c, out_channels |-> c,
     kernel_size |-> 0, stride |-> IntVal(1), padding |-> 0]

Linear(cin, cout) ==
    [op |-> "Linear", in_channels |-> cin, out_channels |-> cout,
     kernel_size |-> 0, stride |-> IntVal(1), padding |-> 0]

\* ------------------------------------------------------------- blocks
BasicExpansion == 1

BottleneckExpansion == 4

Expansion(block) ==
    IF block = "BasicBlock" THEN BasicExpansion ELSE BottleneckExpansion

NoBlock == [variant |-> "none", in_planes |-> 0, planes |-> 0,
            stride |-> IntVal(0), main |-> << >>, shortcut |-> << >>]

Ok(b) == [err |-> "none", block |-> b]

Raise(e) == [err |-> e, block |-> NoBlock]

\* The shortcut with `and` where the code has `or`.
ShortcutBothDiffer(expansion, inp, planes, stride) ==
    IF PyNe1(stride) /\ inp # expansion * planes
    THEN << Conv2d(inp, expansion * planes, 1, stride, 0),
            BatchNorm2d(expansion * planes) >>
    ELSE << >>

\* The projection without the block's stride.
ShortcutUnitStride(expansion, inp, planes, stride) ==
    IF PyNe1(stride) \/ inp # expansion * planes
    THEN << Conv2d(inp, expansion * planes, 1, IntVal(1), 0),
            BatchNorm2d(expansion * planes) >>
    ELSE << >>

\* self.shortcut: nn.Sequential() unless the stride or the channels differ
Shortcut(expansion, inp, planes, stride) ==
    IF PyNe1(stride) \/ inp # expansion * planes
    THEN << Conv2d(inp, expansion * planes, 1, stride, 0),
            BatchNorm2d(expansion * planes) >>
    ELSE << >>

\* A BasicBlock that falls back to defaults where a key is missing.
BasicBlockDefaults(inp, planes, layer_config) ==
    IF layer_config.isInt THEN Raise("TypeError")
    ELSE LET stride == IF layer_config.hasStride THEN IntVal(layer_config.n)
                       ELSE IntVal(1)
         IN  Ok([variant |-> "BasicBlock", in_planes |-> inp, planes |-> planes,
                 stride |-> stride,
                 main |-> << Conv2d(inp, planes, 3, stride, 1),
                             BatchNorm2d(planes),
                             Conv2d(planes, planes, 3, IntVal(1), 1),
                             BatchNorm2d(planes) >>,
                 shortcut |-> Shortcut(BasicExpansion, inp, planes, stride)])

\* BasicBlock.__init__: layer_config["conv"], layer_config["stride"], then
\* conv1, bn1, conv2, bn2 and the shortcut.
BasicBlock(inp, planes, layer_config) ==
    IF layer_config.isInt THEN Raise("TypeError")
    ELSE IF ~layer_config.hasConv THEN Raise("KeyError")
    ELSE IF ~layer_config.hasStride THEN Raise("KeyError")
    ELSE LET stride == IntVal(layer_config.n)
         IN  Ok([variant |-> "BasicBlock", in_planes |-> inp, planes |-> planes,
                 stride |-> stride,
                 main |-> << Conv2d(inp, planes, 3, stride, 1),
                             BatchNorm2d(planes),
                             Conv2d(planes, planes, 3, IntVal(1), 1),
                             BatchNorm2d(planes) >>,
                 shortcut |-> Shortcut(BasicExpansion, inp, planes, stride)])

\* Bottleneck.__init__(in_planes, planes, stride): the third argument is
\* used as the stride whatever it is.
Bottleneck(inp, planes, stride) ==
    Ok([variant |-> "Bottleneck", in_planes |-> inp, planes |-> planes,
        stride |-> stride,
        main |-> << Conv2d(inp, planes, 1, IntVal(1), 0),
                    BatchNorm2d(planes),
                    Conv2d(planes, planes, 3, stride, 1),
                    BatchNorm2d(planes),
                    Conv2d(planes, BottleneckExpansion * planes, 1, IntVal(1), 0),
                    BatchNorm2d(BottleneckExpansion * planes) >>,
        shortcut |-> Shortcut(BottleneckExpansion, inp, planes, stride)])

\* block(self.in_planes, planes, layer_config) for either class
NewBlock(block, inp, planes, layer_config) ==
    IF block = "BasicBlock" THEN BasicBlock(inp, planes, layer_config)
    ELSE Bottleneck(inp, planes, layer_config)

\* ------------------------------------------------------ tensor shapes
\* A tensor is modelled by its shape; a failed operation by the exception.
Tensor(dims) == [err |-> "none", dims |-> dims]

Failed(e) == [err |-> e, dims |-> << >>]

\* output size of a convolution along one axis
ConvOut(h, k, s, p) == ((h + 2 * p - k) \div s) + 1

\* One layer applied to a tensor.  A convolution needs an integer stride
\* (nn.Conv2d stores whatever stride it is given and F.conv2d rejects a
\* stride that is not made of integers when the layer is run), the input's
\* channel count to equal in_channels and a non-empty output.
LayerForward(layer, t) ==
    IF t.err # "none" THEN t
    ELSE IF layer.op = "Conv2d" THEN
        IF ~layer.stride.isInt THEN Failed("TypeError")
        ELSE IF Len(t.dims) # 4 \/ layer.stride.n < 1 THEN Failed("RuntimeError")
        ELSE IF t.dims[2] # layer.in_channels THEN Failed("RuntimeError")
        ELSE IF t.dims[3] + 2 * layer.padding < layer.kernel_size
                \/ t.dims[4] + 2 * layer.padding < layer.kernel_size
             THEN Failed("RuntimeError")
        ELSE Tensor(<< t.dims[1], layer.out_channels,
                       ConvOut(t.dims[3], layer.kernel_size, layer.stride.n, layer.padding),
                       ConvOut(t.dims[4], layer.kernel_size, layer.stride.n, layer.padding) >>)
    ELSE IF layer.op = "BatchNorm2d" THEN
        IF Len(t.dims) # 4 \/ t.dims[2] # layer.in_channels
        THEN Failed("RuntimeError") ELSE t
    ELSE \* Linear
        IF Len(t.dims) # 2 \/ t.dims[2] # layer.in_channels
        THEN Failed("RuntimeError")
        ELSE Tensor(<< t.dims[1], layer.out_channels >>)

\* nn.Sequential.forward: the layers in order (the empty one is the identity).
\* F.relu between layers keeps the shape.
RECURSIVE SeqForward(_, _)
SeqForward(ls, t) ==
    IF ls = << >> THEN t ELSE SeqForward(Tail(ls), LayerForward(Head(ls), t))

\* `out += self.shortcut(x)`: an in-place addition, so the right operand
\* must broadcast to the shape of out (each axis equal, or of size 1).
Add(out, sc) ==
    IF out.err # "none" THEN out
    ELSE IF sc.err # "none" THEN sc
    ELSE IF Len(out.dims) # Len(sc.dims) THEN Failed("RuntimeError")
    ELSE IF \E a \in 1..Len(out.dims) : sc.dims[a] # out.dims[a] /\ sc.dims[a] # 1
         THEN Failed("RuntimeError")
    ELSE out

\* the main path of a block: lines 57-58 and 95-97
MainPath(b, t) == SeqForward(b.main, t)

\* the shortcut path of a block: self.shortcut(x)
ShortcutPath(b, t) == SeqForward(b.shortcut, t)

\* BasicBlock.forward and Bottleneck.forward
BlockForward(b, t) == Add(MainPath(b, t), ShortcutPath(b, t))

\* F.avg_pool2d(out, 4): kernel k, stride k, no padding
AvgPool2d(t, k) ==
    IF t.err # "none" THEN t
    ELSE IF Len(t.dims) # 4 \/ t.dims[3] < k \/ t.dims[4] < k THEN Failed("RuntimeError")
    ELSE Tensor(<< t.dims[1], t.dims[2],
                   ((t.dims[3] - k) \div k) + 1, ((t.dims[4] - k) \div k) + 1 >>)

\* out.view(out.size(0), -1)
View(t) ==
    IF t.err # "none" THEN t
    ELSE Tensor(<< t.dims[1], t.dims[2] * t.dims[3] * t.dims[4] >>)

\* ------------------------------------------------------------- calls
Variants == {"BasicBlock", "Bottleneck"}

Names == {"ResNet18", "ResNet34", "ResNet50", "ResNet101", "ResNet152"}

\* the five named constructors: the block class and num_blocks each passes
NamedBlock(name) ==
    IF name \in {"ResNet18", "ResNet34"} THEN "BasicBlock" ELSE "Bottleneck"

NamedNumBlocks(name) ==
    CASE name = "ResNet18"  -> <<2, 2, 2, 2>>
      [] name = "ResNet34"  -> <<3, 4, 6, 3>>
      [] name = "ResNet50"  -> <<3, 4, 6, 3>>
      [] name = "ResNet101" -> <<3, 4, 23, 3>>
      [] name = "ResNet152" -> <<3, 8, 36, 3>>

\* num_blocks offered to a direct call of the class ResNet
DirectNumBlocks == { <<1, 1, 1, 1>>, <<1, 0, 1, 0>> }

\* the base widths __init__ passes to _make_layer for layer1..layer4
Planes == <<64, 128, 256, 512>>

\* the default of num_classes
NumClasses == 10

\* the 32x32 three-channel input batch of n images
Input(n) == Tensor(<<n, 3, 32, 32>>)

\* ------------------------------------------------- configuration lists
Strides == 1..MaxStride

\* a well-formed configuration value of the given kind with stride s
Rec(kind, s) == IF kind = "dict" THEN DictVal(TRUE, TRUE, s) ELSE IntVal(s)

\* What is done to a list that otherwise has one value per block:
\* nothing, one stage made longer or shorter or empty, or one dict that
\* lacks a key.
Perturbations ==
    { [what |-> "none", stage |-> 0, delta |-> 0, last |-> FALSE, key |-> "none"] }
    \cup { [what |-> "len", stage |-> k, delta |-> d, last |-> FALSE, key |-> "none"] :
             k \in 1..4, d \in ((0 - LenSlack)..LenSlack) \ {0} }
    \cup { [what |-> "empty", stage |-> k, delta |-> 0, last |-> FALSE, key |-> "none"] :
             k \in 1..4 }
    \cup { [what |-> "nokey", stage |-> k, delta |-> 0, last |-> l, key |-> ky] :
             k \in 1..4, l \in BOOLEAN, ky \in {"conv", "stride"} }

Max(a, b) == IF a > b THEN a ELSE b

ConfLen(nb, p, k) ==
    IF p.what = "len" /\ p.stage = k THEN Max(0, nb[k] + p.delta)
    ELSE IF p.what = "empty" /\ p.stage = k THEN 0
    ELSE nb[k]

\* The configuration lists of one call: the first value of stages 2..4 has
\* stride `down`, every other value stride `unit`.
Configs(nb, kind, unit, down, p) ==
    [k \in 1..4 |->
        [j \in 1..ConfLen(nb, p, k) |->
            LET s == IF j = 1 /\ k > 1 THEN down ELSE unit
            IN  IF /\ p.what = "nokey" /\ p.stage = k /\ kind = "dict"
                   /\ j = (IF p.last THEN ConfLen(nb, p, k) ELSE 1)
                THEN DictVal(p.key # "conv", p.key # "stride", s)
                ELSE Rec(kind, s)]]

NetCall(entry, block, nb, configs) ==
    [entry |-> entry, block |-> block, num_blocks |-> nb, configs |-> configs,
     inp |-> 0, planes |-> 0, arg |-> IntVal(0), input |-> Tensor(<< >>)]

BlockCall(block, inp, planes, arg, input) ==
    [entry |-> block, block |-> block, num_blocks |-> << >>, configs |-> << >>,
     inp |-> inp, planes |-> planes, arg |-> arg, input |-> input]

\* the strides the stages were written for (comments of lines 113-122)
StageStrides == {1, 2}

ConfigChoices(nb) ==
    { Configs(nb, kind, unit, down, p) :
        kind \in {"dict", "int"}, unit \in StageStrides, down \in StageStrides,
        p \in Perturbations }

\* calls of the named constructors and of the class ResNet
NetCalls ==
    UNION { { NetCall(name, NamedBlock(name), NamedNumBlocks(name), c) :
                c \in ConfigChoices(NamedNumBlocks(name)) } : name \in Names }
    \cup
    UNION { { NetCall("ResNet", b, nb, c) : c \in ConfigChoices(nb) } :
                b \in Variants, nb \in DirectNumBlocks }

\* the third argument offered to a block class called directly
BlockArgs ==
    { IntVal(s) : s \in Strides }
    \cup { DictVal(TRUE, TRUE, s) : s \in Strides }
    \cup { DictVal(FALSE, TRUE, 1), DictVal(TRUE, FALSE, 1) }

\* direct calls BasicBlock(in_planes, planes, layer_config) and
\* Bottleneck(in_planes, planes, stride), followed by forward(x) on an
\* input with in_planes channels
BlockCalls ==
    { BlockCall(b, i, p, a, Tensor(<<n, i, h, w>>)) :
        b \in Variants, i \in 1..MaxPlanes, p \in 1..MaxPlanes, a \in BlockArgs,
        n \in 1..MaxBatch, h \in 1..MaxSide, w \in 1..MaxSide }

IsNetCall == call.entry \in Names \cup {"ResNet"}

\* ---------------------------------------------------------------- Init
Init ==
    /\ call \in NetCalls \cup BlockCalls
    /\ pc = IF call.entry \in Variants THEN "block_init" ELSE "init"
    /\ in_planes = 0
    /\ stage = 0
    /\ idx = 0
    /\ layers = << >>
    /\ net = << >>
    /\ stem = << >>
    /\ linear = << >>
    /\ x = Tensor(<< >>)
    /\ err = "none"
    /\ nReads = 0
    /\ nWrites = 0
    /\ blk = NoBlock
    /\ mainOut = Tensor(<< >>)
    /\ shortOut = Tensor(<< >>)

\* ------------------------------------------------- ResNet.__init__
\* lines 105-110: the counter starts at 64, the stem is built, and the
\* first _make_layer call starts with an empty local list
ResNetInit ==
    /\ pc = "init"
    /\ in_planes' = 64
    /\ stem' = << Conv2d(3, 64, 3, IntVal(1), 1), BatchNorm2d(64) >>
    /\ stage' = 1
    /\ idx' = 1
    /\ layers' = << >>
    /\ pc' = "make_layer"
    /\ UNCHANGED <<call, net, linear, x, err, nReads, nWrites, blk, mainOut, shortOut>>

\* lines 128-129: the loop takes the next configuration value, reads
\* self.in_planes, constructs the block and appends it; an exception of
\* the block class ends the call
MakeBlock ==
    /\ pc = "make_layer"
    /\ idx <= Len(call.configs[stage])
    /\ LET r == NewBlock(call.block, in_planes, Planes[stage], call.configs[stage][idx])
       IN  /\ nReads' = nReads + 1
           /\ IF r.err = "none"
              THEN /\ layers' = Append(layers, r.block)
                   /\ pc' = "update"
                   /\ err' = err
              ELSE /\ layers' = layers
                   /\ pc' = "failed"
                   /\ err' = r.err
    /\ UNCHANGED <<call, in_planes, stage, idx, net, stem, linear, x, nWrites,
                   blk, mainOut, shortOut>>

\* A loop body that leaves the counter alone.
SkipUpdateInPlanes ==
    /\ pc = "update"
    /\ idx' = idx + 1
    /\ pc' = "make_layer"
    /\ UNCHANGED <<call, in_planes, stage, layers, net, stem, linear, x, err, nReads,
                   nWrites, blk, mainOut, shortOut>>

\* A loop body that forgets the expansion factor.
UpdateInPlanesNoExpansion ==
    /\ pc = "update"
    /\ in_planes' = Planes[stage]
    /\ nWrites' = nWrites + 1
    /\ idx' = idx + 1
    /\ pc' = "make_layer"
    /\ UNCHANGED <<call, stage, layers, net, stem, linear, x, err, nReads,
                   blk, mainOut, shortOut>>

\* line 130: self.in_planes = planes * block.expansion, then the loop goes on
UpdateInPlanes ==
    /\ pc = "update"
    /\ in_planes' = Planes[stage] * Expansion(call.block)
    /\ nWrites' = nWrites + 1
    /\ idx' = idx + 1
    /\ pc' = "make_layer"
    /\ UNCHANGED <<call, stage, layers, net, stem, linear, x, err, nReads,
                   blk, mainOut, shortOut>>

\* line 131 and the assignment to self.layer<stage>: the loop is over, the
\* stage is returned and stored; __init__ goes on with the next stage or
\* with line 123
ReturnLayer ==
    /\ pc = "make_layer"
    /\ idx > Len(call.configs[stage])
    /\ net' = Append(net, layers)
    /\ layers' = << >>
    /\ idx' = 1
    /\ IF stage < 4
       THEN /\ stage' = stage + 1
            /\ pc' = "make_layer"
       ELSE /\ stage' = stage
            /\ pc' = "linear"
    /\ UNCHANGED <<call, in_planes, stem, linear, x, err, nReads, nWrites,
                   blk, mainOut, shortOut>>

\* A classifier sized without the expansion factor.
MakeLinearNoExpansion ==
    /\ pc = "linear"
    /\ linear' = << Linear(512, NumClasses) >>
    /\ pc' = "built"
    /\ UNCHANGED <<call, in_planes, stage, idx, layers, net, stem, x, err, nReads,
                   nWrites, blk, mainOut, shortOut>>

\* line 123: self.linear = nn.Linear(512 * block.expansion, num_classes)
MakeLinear ==
    /\ pc = "linear"
    /\ linear' = << Linear(512 * Expansion(call.block), NumClasses) >>
    /\ pc' = "built"
    /\ UNCHANGED <<call, in_planes, stage, idx, layers, net, stem, x, err, nReads,
                   nWrites, blk, mainOut, shortOut>>

\* --------------------------------------------------- ResNet.forward
\* what a forward step does with its result: go on, or end with the exception
Step(t, next) ==
    /\ x' = t
    /\ IF t.err = "none"
       THEN /\ pc' = next
            /\ err' = err
       ELSE /\ pc' = "failed"
            /\ err' = t.err

\* line 134 on an input batch of n images
ForwardStem ==
    /\ pc = "built"
    /\ \E n \in 1..MaxBatch : Step(SeqForward(stem, Input(n)), "fwd_layer")
    /\ stage' = 1
    /\ idx' = 1
    /\ UNCHANGED <<call, in_planes, layers, net, stem, linear, nReads, nWrites,
                   blk, mainOut, shortOut>>

\* lines 135-138, out = self.layer<stage>(out): the stage runs its next block
ForwardBlock ==
    /\ pc = "fwd_layer"
    /\ idx <= Len(net[stage])
    /\ LET t == BlockForward(net[stage][idx], x)
       IN  /\ Step(t, "fwd_layer")
           /\ idx' = IF t.err = "none" THEN idx + 1 ELSE idx
    /\ UNCHANGED <<call, in_planes, stage, layers, net, stem, linear, nReads, nWrites,
                   blk, mainOut, shortOut>>

\* lines 135-138: the stage has run its blocks; forward goes on with the
\* next stage or with line 139
ForwardLayerDone ==
    /\ pc = "fwd_layer"
    /\ idx > Len(net[stage])
    /\ idx' = 1
    /\ IF stage < 4
       THEN /\ stage' = stage + 1
            /\ pc' = "fwd_layer"
       ELSE /\ stage' = stage
            /\ pc' = "pool"
    /\ UNCHANGED <<call, in_planes, layers, net, stem, linear, x, err, nReads, nWrites,
                   blk, mainOut, shortOut>>

\* line 139: out = F.avg_pool2d(out, 4)
ForwardPool ==
    /\ pc = "pool"
    /\ Step(AvgPool2d(x, 4), "view")
    /\ UNCHANGED <<call, in_planes, stage, idx, layers, net, stem, linear, nReads,
                   nWrites, blk, mainOut, shortOut>>

\* line 140: out = out.view(out.size(0), -1)
ForwardView ==
    /\ pc = "view"
    /\ Step(View(x), "fc")
    /\ UNCHANGED <<call, in_planes, stage, idx, layers, net, stem, linear, nReads,
                   nWrites, blk, mainOut, shortOut>>

\* lines 141-142: out = self.linear(out); return out
ForwardLinear ==
    /\ pc = "fc"
    /\ Step(SeqForward(linear, x), "done")
    /\ UNCHANGED <<call, in_planes, stage, idx, layers, net, stem, linear, nReads,
                   nWrites, blk, mainOut, shortOut>>

\* ------------------------------------------- a block called directly
\* BasicBlock(in_planes, planes, layer_config) / Bottleneck(in_planes, planes, stride)
BlockInit ==
    /\ pc = "block_init"
    /\ LET r == NewBlock(call.block, call.inp, call.planes, call.arg)
       IN  /\ blk' = r.block
           /\ err' = r.err
           /\ pc' = IF r.err = "none" THEN "block_built" ELSE "failed"
    /\ UNCHANGED <<call, in_planes, stage, idx, layers, net, stem, linear, x,
                   nReads, nWrites, mainOut, shortOut>>

\* block.forward(x) on the call's input: the main path, the shortcut path
\* and their sum
BlockRun ==
    /\ pc = "block_built"
    /\ mainOut' = MainPath(blk, call.input)
    /\ shortOut' = ShortcutPath(blk, call.input)
    /\ Step(BlockForward(blk, call.input), "done")
    /\ UNCHANGED <<call, in_planes, stage, idx, layers, net, stem, linear,
                   nReads, nWrites, blk>>

Next ==
    \/ ResNetInit
    \/ MakeBlock
    \/ UpdateInPlanes
    \/ ReturnLayer
    \/ MakeLinear
    \/ ForwardStem
    \/ ForwardBlock
    \/ ForwardLayerDone
    \/ ForwardPool
    \/ ForwardView
    \/ ForwardLinear
    \/ BlockInit
    \/ BlockRun

Spec == Init /\ [][Next]_vars

\* ------------------------------------------------- reading the state
RECURSIVE Flatten(_)
Flatten(ss) == IF ss = << >> THEN << >> ELSE Head(ss) \o Flatten(Tail(ss))

\* every block built so far, in the order of construction
Blocks == Flatten(net) \o layers

\* channel counts a block takes and gives, read off its layers
InWidth(b) == b.main[1].in_channels

OutWidth(b) == b.main[Len(b.main)].out_channels

\* a dict that lacks "conv" or "stride"
MissingKey(v) == ~v.isInt /\ (~v.hasConv \/ ~v.hasStride)

\* a _make_layer call has just returned and its stage has been stored
JustReturned ==
    /\ IsNetCall
    /\ Len(net) >= 1
    /\ pc = "linear" \/ (pc = "make_layer" /\ idx = 1 /\ stage = Len(net) + 1)

\* ------------------------------------------------------------- claims

\* C2: every block built, in a network or directly, has the empty
\* sequence as its shortcut exactly when its stride is 1 and its input
\* channel count is expansion x planes; otherwise its shortcut is a 1x1
\* convolution from in_planes to expansion x planes channels with the
\* block's stride, followed by a normalization of expansion x planes channels.
ShortcutRule(b) ==
    LET w == Expansion(b.variant) * b.planes
    IN  IF b.stride = IntVal(1) /\ b.in_planes = w
        THEN b.shortcut = << >>
        ELSE /\ Len(b.shortcut) = 2
             /\ b.shortcut[1] = Conv2d(b.in_planes, w, 1, b.stride, 0)
             /\ b.shortcut[2] = BatchNorm2d(w)

C2_ShortcutExactlyWhenNeeded ==
    /\ \A n \in 1..Len(Blocks) : ShortcutRule(Blocks[n])
    /\ blk # NoBlock => ShortcutRule(blk)

\* a built Bottleneck network holding an identity shortcut, a projection
\* forced by the channel counts alone (stride 1) and a projection given a
\* stride of 2
C2_Witness ==
    /\ pc = "built"
    /\ call.block = "Bottleneck"
    /\ \E n \in 1..Len(Blocks) : Blocks[n].shortcut = << >>
    /\ \E n \in 1..Len(Blocks) :
          /\ Blocks[n].shortcut # << >>
          /\ Blocks[n].stride = IntVal(1)
    /\ \E n \in 1..Len(Blocks) :
          /\ Blocks[n].shortcut # << >>
          /\ Blocks[n].stride = IntVal(2)

\* C3 as stated: whenever _make_layer has returned a stage of base width W,
\* self.in_planes is W x expansion, whatever the configuration list was.
C3_AnyConfigList ==
    JustReturned => in_planes = Planes[Len(net)] * Expansion(call.block)

\* C3 amended: whenever _make_layer has returned a stage of base width W
\* built from a non-empty configuration list, self.in_planes is W x expansion.
C3_NonEmptyConfigList ==
    (JustReturned /\ Len(call.configs[Len(net)]) > 0)
        => in_planes = Planes[Len(net)] * Expansion(call.block)

\* the second stage of a Bottleneck network has just been returned with a
\* number of blocks other than num_blocks[1]
C3_Witness ==
    /\ JustReturned
    /\ Len(net) = 2
    /\ call.block = "Bottleneck"
    /\ Len(net[2]) > 0
    /\ Len(net[2]) # call.num_blocks[2]
    /\ in_planes = 512

\* C5: a BasicBlock is never built from a dict that lacks "conv" or
\* "stride": the construction ends with a KeyError, a direct call returns
\* no block, and in the stage builder the block is not appended and
\* neither this stage nor a later one is returned.
C5_MissingKeyFails ==
    /\ (IsNetCall /\ call.block = "BasicBlock") =>
          \A k \in 1..4 : \A j \in 1..Len(call.configs[k]) :
              MissingKey(call.configs[k][j]) =>
                  /\ Len(net) < k
                  /\ stage = k => Len(layers) < j
                  /\ (stage = k /\ idx = j /\ nReads > Len(Blocks))
                        => (pc = "failed" /\ err = "KeyError")
    /\ (call.entry = "BasicBlock" /\ MissingKey(call.arg) /\ pc # "block_init")
          => (pc = "failed" /\ err = "KeyError" /\ blk = NoBlock)

\* the stage builder has failed on the last record of a later stage, with
\* the blocks before it in its list
C5_Witness ==
    /\ IsNetCall
    /\ call.block = "BasicBlock"
    /\ pc = "failed"
    /\ err = "KeyError"
    /\ stage > 1
    /\ idx > 1
    /\ Len(net) = stage - 1
    /\ Len(layers) = idx - 1
    /\ MissingKey(call.configs[stage][idx])

\* C8 as stated: the first block takes the stem's 64 channels, every later
\* block takes what the block built before it gives, and the linear layer
\* takes 512 x expansion, which is what the last block built gives.
ChannelsChain ==
    \A n \in 1..Len(Blocks) :
        /\ InWidth(Blocks[n]) = Blocks[n].in_planes
        /\ OutWidth(Blocks[n]) = Blocks[n].planes * Expansion(Blocks[n].variant)
        /\ InWidth(Blocks[n]) =
              IF n = 1 THEN stem[2].out_channels ELSE OutWidth(Blocks[n - 1])

C8_ChainToLinear ==
    IsNetCall =>
        /\ stem # << >> => (stem[1].out_channels = 64 /\ stem[2].out_channels = 64)
        /\ ChannelsChain
        /\ (linear # << >> /\ Len(Blocks) > 0) =>
              /\ linear[1].in_channels = 512 * Expansion(call.block)
              /\ linear[1].in_channels = OutWidth(Blocks[Len(Blocks)])

\* C8 amended: the same, the linear layer's input width being what the
\* last block built gives when the fourth stage's list is not empty.
C8_ChainToLinearNonEmptyLast ==
    IsNetCall =>
        /\ stem # << >> => (stem[1].out_channels = 64 /\ stem[2].out_channels = 64)
        /\ ChannelsChain
        /\ linear # << >> => linear[1].in_channels = 512 * Expansion(call.block)
        /\ (linear # << >> /\ Len(call.configs[4]) > 0) =>
              linear[1].in_channels = OutWidth(Blocks[Len(Blocks)])

\* a Bottleneck network built with an empty stage before a non-empty last one
C8_Witness ==
    /\ pc = "built"
    /\ call.block = "Bottleneck"
    /\ \E k \in 1..3 : net[k] = << >>
    /\ Len(net[4]) > 1
    /\ OutWidth(Blocks[Len(Blocks)]) = 2048

\* C9: self.in_planes is 64 until its first write in the loop; reads
\* (line 129) and writes (line 130) alternate, one of each per block built,
\* a read first; outside a block construction as many writes as reads have
\* happened, one per block; only line 130 changes the counter once it is
\* set; and no write lowers it.
C9_ReadThenWriteMonotone ==
    /\ [](IsNetCall =>
            /\ (pc # "init" /\ nWrites = 0) => in_planes = 64
            /\ nWrites <= nReads
            /\ nReads <= nWrites + 1
            /\ nWrites = Len(Blocks) - (IF pc = "update" THEN 1 ELSE 0)
            /\ pc \notin {"update", "failed"} => nReads = nWrites)
    /\ [][IsNetCall =>
            /\ in_planes' # in_planes =>
                  \/ pc = "init"
                  \/ pc = "update" /\ nWrites' = nWrites + 1
            /\ nWrites' # nWrites =>
                  /\ nWrites' = nWrites + 1
                  /\ nReads = nWrites'
                  /\ in_planes' >= in_planes
                  /\ in_planes' = OutWidth(Blocks[Len(Blocks)])
            /\ nReads' # nReads =>
                  /\ nReads' = nReads + 1
                  /\ nWrites = nReads]_vars

\* a Bottleneck network whose build wrote the counter once per block, the
\* last write being that of the fourth stage
C9_Witness ==
    /\ pc = "built"
    /\ call.block = "Bottleneck"
    /\ \A k \in 1..4 : Len(net[k]) >= 2
    /\ nWrites = Len(Blocks)
    /\ nReads = nWrites
    /\ in_planes = 2048

\* C10: a block built with an integer stride s >= 1 and run on an input
\* (N, in_planes, H, W) gives, on its main path and on its shortcut path
\* alike, the shape (N, expansion x planes, (H-1) div s + 1, (W-1) div s + 1),
\* and the addition succeeds with that shape.
C10_ResidualShapesAgree ==
    (/\ call.entry \in Variants
     /\ pc \in {"done", "failed"}
     /\ blk # NoBlock
     /\ blk.stride.isInt
     /\ blk.stride.n >= 1)
    => LET d == call.input.dims
           s == blk.stride.n
           want == Tensor(<< d[1], Expansion(blk.variant) * blk.planes,
                             ((d[3] - 1) \div s) + 1, ((d[4] - 1) \div s) + 1 >>)
       IN  /\ mainOut = want
           /\ shortOut = want
           /\ x = want
           /\ pc = "done"

\* a Basic block with a projection of stride 2 run on a 3x2 input
C10_Witness ==
    /\ call.entry = "BasicBlock"
    /\ pc = "done"
    /\ blk.stride = IntVal(2)
    /\ blk.shortcut # << >>
    /\ call.input.dims[3] = 3
    /\ call.input.dims[4] = 2
    /\ x.dims[3] = 2
    /\ x.dims[4] = 1

\* the configuration lists have one value per block
Matching ==
    \A k \in 1..4 : Len(call.configs[k]) = call.num_blocks[k]

\* every value is a configuration record with its two keys
AllRecords ==
    \A k \in 1..4 : \A j \in 1..Len(call.configs[k]) :
        LET v == call.configs[k][j] IN ~v.isInt /\ v.hasConv /\ v.hasStride

\* the strides of the comments of lines 113-122: 2 at the head of
\* layer2..layer4, 1 elsewhere, which take 32x32 to the 4x4 of the pooling
StandardStrides ==
    \A k \in 1..4 : \A j \in 1..Len(call.configs[k]) :
        call.configs[k][j].n = IF j = 1 /\ k > 1 THEN 2 ELSE 1

\* C1 (read with the strides of lines 113-122): a named constructor given
\* one configuration record per block builds a network, and its forward
\* pass on (N,3,32,32) ends with the shape (N,10).
C1_NamedNetsClassify ==
    (call.entry \in Names /\ Matching /\ AllRecords /\ StandardStrides) =>
        /\ pc # "failed"
        /\ pc = "done" =>
              /\ Len(x.dims) = 2
              /\ x.dims[1] \in 1..MaxBatch
              /\ x.dims[2] = 10

\* block class and block counts as the names state them
StatedVariant(name) ==
    IF name \in {"ResNet18", "ResNet34"} THEN "BasicBlock" ELSE "Bottleneck"

StatedCounts(name) ==
    CASE name = "ResNet18"  -> <<2, 2, 2, 2>>
      [] name = "ResNet34"  -> <<3, 4, 6, 3>>
      [] name = "ResNet50"  -> <<3, 4, 6, 3>>
      [] name = "ResNet101" -> <<3, 4, 23, 3>>
      [] name = "ResNet152" -> <<3, 8, 36, 3>>

\* C4: every stage a named constructor has built holds the stated number
\* of blocks, all of the stated class.
C4_NamedCountsAndVariant ==
    call.entry \in Names =>
        \A k \in 1..Len(net) :
            /\ Len(net[k]) = StatedCounts(call.entry)[k]
            /\ \A j \in 1..Len(net[k]) : net[k][j].variant = StatedVariant(call.entry)

\* C7: a stage _make_layer has returned holds num_blocks blocks, and no
\* stage is returned for a list whose length is not num_blocks (the call
\* has failed instead).
C7_StageHasNumBlocks ==
    IsNetCall =>
        /\ \A k \in 1..Len(net) : Len(net[k]) = call.num_blocks[k]
        /\ \A k \in 1..4 :
              Len(call.configs[k]) # call.num_blocks[k] => Len(net) < k

====
